---- MODULE Spec2Model ----
(***************************************************************************)
(* Tuple flattening layer of the SMT encoding (solvers/smt/smt_tuple.cpp). *)
(* Tuple and TupleArray terms live in a heap of objects that refer to      *)
(* their children; Plain terms are immutable backend terms and are         *)
(* modelled as values.                                                     *)
(***************************************************************************)
EXTENDS Integers, Sequences, FiniteSets, TLC

VARIABLES heap, ctr, syms, asserted, fault, handles, last, nops

vars == <<heap, ctr, syms, asserted, fault, handles, last, nops>>

(***************************************************************************)
(* Bounds of the exploration.                                              *)
(***************************************************************************)
\* operations performed in one run
MaxOps == 3
\* heap objects above which no further operation is started
MaxTerms == 5
\* number of elements of the finite constant-size array type
ArrLen == 2
\* largest field index handed to project / update
MaxIdx == 2
\* tuple_array_of results above which no further array_of is converted
MaxArrayOf == 1

(***************************************************************************)
(* The type layer: the descriptors the encoding consumes.                  *)
(***************************************************************************)
\* width of machine_ptr, the type of both fields of the pointer record
PtrWidth == 8

ScalarT(k, w) ==
  [kind |-> k, width |-> w, members |-> <<>>, member_names |-> <<>>,
   subtype |-> "none", size |-> "none"]

DataT(k, ms, ns) ==
  [kind |-> k, width |-> 0, members |-> ms, member_names |-> ns,
   subtype |-> "none", size |-> "none"]

ArrayT(sub, sz) ==
  [kind |-> "array", width |-> 0, members |-> <<>>, member_names |-> <<>>,
   subtype |-> sub, size |-> sz]

\* machine_ptr: the unsigned integer type of pointer-record fields
machine_ptr == ScalarT("bv", PtrWidth)

pointer_struct ==
  DataT("struct", <<machine_ptr, machine_ptr>>,
        <<"pointer_object", "pointer_offset">>)

\* the array type with element type t
array_type_of(t) == ArrayT(t, "const")

\* the named types of the exploration; a type is its descriptor
TypeDef ==
  LET u8 == ScalarT("bv", 8)
      bool == ScalarT("bool", 1)
      S == DataT("struct", <<u8, bool>>, <<"a", "b">>)
      AS == array_type_of(S)
  IN [ u8   |-> u8,
       uptr |-> machine_ptr,
       bool |-> bool,
       ptr  |-> ScalarT("pointer", 0),
       PS   |-> pointer_struct,
       S    |-> S,
       N    |-> DataT("struct", <<S, u8>>, <<"s", "c">>),
       T    |-> DataT("struct", <<AS, u8>>, <<"r", "a">>),
       U    |-> DataT("union", <<u8, bool>>, <<"x", "y">>),
       V    |-> DataT("union", <<S, AS, bool, u8>>, <<"s", "r", "y", "x">>),
       AS   |-> AS,
       AI   |-> ArrayT(S, "infinite"),
       AX   |-> ArrayT(S, "nonconst") ]

is_pointer_type(t) == t.kind = "pointer"
is_structure_type(t) == t.kind \in {"struct", "union"}
is_array_type(t) == t.kind = "array"
is_number_type(t) == t.kind = "bv"
is_bool_type(t) == t.kind = "bool"
is_tuple_ast_type(t) == is_structure_type(t) \/ is_pointer_type(t)
is_tuple_array_ast_type(t) ==
  is_array_type(t) /\ is_tuple_ast_type(t.subtype)

pointer_type_data == pointer_struct

get_type_def(type) ==
  IF is_pointer_type(type) THEN pointer_type_data ELSE type

\* base_type_eq on the closed set of types: identity of the descriptor
base_type_eq(t1, t2) == t1 = t2

(***************************************************************************)
(* Terms.  A child slot holds a reference to a heap object, a Plain term,  *)
(* or nothing (a null smt_astt).                                           *)
(***************************************************************************)
NilE == [e |-> "nil"]
Pow2(w) == 2 ^ w

Ref(id) == [k |-> "ref", id |-> id]
Plain(t) == [k |-> "plain", t |-> t]
Null == [k |-> "null"]
NoResult == [k |-> "none"]

\* sorts of Plain terms
BoolSort == [id |-> "bool", width |-> 1]
BvSort(w) == [id |-> "bv", width |-> w]
ArraySort(w) == [id |-> "array", width |-> w]
TupleSort == [id |-> "tuple", width |-> 0]

\* convert_sort for the types a Plain term can have
convert_sort(type) ==
  IF is_bool_type(type) THEN BoolSort
  ELSE IF is_number_type(type) THEN BvSort(type.width)
  ELSE IF is_array_type(type) /\ ~is_tuple_array_ast_type(type)
       THEN ArraySort(type.subtype.width)
       ELSE TupleSort

\* sort of the per-field array of an array of records
field_array_sort(it) == ArraySort(it.width)

SymTerm(name, sort) == [op |-> "sym", name |-> name, sort |-> sort]
ConstTerm(v, sort) == [op |-> "const", v |-> v, sort |-> sort]
IteTerm(c, a, b) == [op |-> "ite", c |-> c, a |-> a, b |-> b, sort |-> a.sort]
EqTerm(a, b) == [op |-> "eq", a |-> a, b |-> b, sort |-> BoolSort]
AndTerm(args) == [op |-> "and", args |-> args, sort |-> BoolSort]
StoreTerm(a, i, v) == [op |-> "store", a |-> a, i |-> i, v |-> v, sort |-> a.sort]
SelectTerm(a, i, rs) == [op |-> "select", a |-> a, i |-> i, sort |-> rs]
\* what a call through a null or mistyped term pointer yields when it returns
Undef == [op |-> "undef", sort |-> BoolSort]

tuple_smt_ast(sort, name) ==
  [kind |-> "tuple", sort |-> sort, name |-> name, elements |-> <<>>,
   is_still_free |-> FALSE]

\* the machine: everything an operation reads and writes
\* ub: how this run's build resolves undefined behaviour
Machine(ub) == [heap |-> heap, ctr |-> ctr, syms |-> syms,
                asserted |-> asserted, fault |-> fault, ub |-> ub]

UBOutcomes == {"crash", "continue"}

Alloc(m, obj) == [m EXCEPT !.heap = Append(@, obj)]
NewId(m) == Len(m.heap) + 1
Abort(m) == [m EXCEPT !.fault = TRUE]

Nulls(n) == [j \in 1..n |-> Null]

mk_fresh_name(m, tag) ==
  [m |-> [m EXCEPT !.ctr = @ + 1], name |-> <<tag, ToString(m.ctr)>>]

mk_smt_symbol(m, name) == [m EXCEPT !.syms = @ \cup {name}]

mk_fresh(m, sort, name) ==
  [m |-> mk_smt_symbol(m, name), ast |-> Plain(SymTerm(name, sort))]

\* a step's result: no term when the step ended in the fault state
ResultOf(m, ast) == [m |-> m, ast |-> IF m.fault THEN NoResult ELSE ast]

RECURSIVE array_fields(_, _, _, _)
array_fields(m, id, strct, i) ==
  IF i > Len(strct.members) THEN m
  ELSE LET fieldname == m.heap[id].name \o <<".", strct.member_names[i]>>
           store(r) == array_fields([r.m EXCEPT !.heap[id].elements[i] = r.ast],
                                    id, strct, i + 1)
       IN store(mk_fresh(m, field_array_sort(strct.members[i]), fieldname))

\* constructor of array_smt_ast: one array-typed child per field, free flag set
array_smt_ast(m, sort, name) ==
  LET strct == get_type_def(sort.subtype)
      obj == [kind |-> "array", sort |-> sort, name |-> name,
              elements |-> Nulls(Len(strct.members)), is_still_free |-> TRUE]
  IN [m |-> array_fields(Alloc(m, obj), NewId(m), strct, 1),
      ast |-> Ref(NewId(m))]

tuple_fresh(m, s, name) ==
  LET f == IF name = <<>>
           THEN LET g == mk_fresh_name(m, "tuple_fresh::")
                IN [m |-> g.m, name |-> g.name \o <<".">>]
           ELSE [m |-> m, name |-> name]
      fresh(m1) ==
        IF is_array_type(s)
        THEN array_smt_ast(m1, s, f.name)
        ELSE [m |-> Alloc(m1, tuple_smt_ast(s, f.name)), ast |-> Ref(NewId(m1))]
  IN fresh(mk_smt_symbol(f.m, f.name))

RECURSIVE make_free_fields(_, _, _, _)
\* materialization linking a structured field back to the term itself
make_free_fields_linking_parent(m, id, strct, i) ==
  IF i > Len(strct.members) THEN m
  ELSE LET it == strct.members[i]
           fieldname == m.heap[id].name \o <<".", strct.member_names[i]>>
           store(r) ==
             make_free_fields([r.m EXCEPT !.heap[id].elements[i] = r.ast],
                              id, strct, i + 1)
       IN store(IF is_tuple_ast_type(it) THEN [m |-> m, ast |-> Ref(id)]
                ELSE IF is_tuple_array_ast_type(it)
                     THEN array_smt_ast(m, it, fieldname)
                     ELSE mk_fresh(m, convert_sort(it), fieldname))

make_free_fields(m, id, strct, i) ==
  IF i > Len(strct.members) THEN m
  ELSE LET it == strct.members[i]
           fieldname == m.heap[id].name \o <<".", strct.member_names[i]>>
           store(r) ==
             make_free_fields([r.m EXCEPT !.heap[id].elements[i] = r.ast],
                              id, strct, i + 1)
       IN store(IF is_tuple_ast_type(it) THEN tuple_fresh(m, it, fieldname)
                ELSE IF is_tuple_array_ast_type(it)
                     THEN array_smt_ast(m, it, fieldname)
                     ELSE mk_fresh(m, convert_sort(it), fieldname))

\* make_free without the populated-term guard
make_free_always(m, id) ==
  LET strct == get_type_def(m.heap[id].sort)
      m1 == [m EXCEPT !.heap[id].elements = Nulls(Len(strct.members))]
  IN make_free_fields(m1, id, strct, 1)

make_free(m, id) ==
  IF Len(m.heap[id].elements) # 0 THEN m
  ELSE LET strct == get_type_def(m.heap[id].sort)
           m1 == [m EXCEPT !.heap[id].elements = Nulls(Len(strct.members))]
       IN make_free_fields(m1, id, strct, 1)

\* project without the bounds assertion: the index wraps around
tuple_project_wrapping(m, id, idx) ==
  LET data == get_type_def(m.heap[id].sort)
      child(m1) ==
        [m |-> m1, ast |-> m1.heap[id].elements[(idx % Len(data.members)) + 1]]
  IN child(make_free(m, id))

\* tuple_smt_ast::project; idx counts from 0 as in the source
tuple_project(m, id, idx) ==
  LET data == get_type_def(m.heap[id].sort)
      child(m1) ==
        IF idx < Len(data.members)
        THEN [m |-> m1, ast |-> m1.heap[id].elements[idx + 1]]
        ELSE [m |-> Abort(m1), ast |-> NoResult]
  IN child(make_free(m, id))

array_project(m, id, idx) ==
  IF idx < Len(m.heap[id].elements)
  THEN [m |-> m, ast |-> m.heap[id].elements[idx + 1]]
  ELSE [m |-> Abort(m), ast |-> NoResult]

project(m, id, idx) ==
  IF m.heap[id].kind = "array" THEN array_project(m, id, idx)
  ELSE tuple_project(m, id, idx)

(***************************************************************************)
(* Operation dispatch over the three term variants.                        *)
(***************************************************************************)
\* a virtual call through a null smt_astt: undefined behaviour
NullCall(m) ==
  IF m.ub = "crash" THEN [m |-> Abort(m), ast |-> NoResult]
  ELSE [m |-> m, ast |-> Plain(Undef)]

IsPlain(a) == a.k = "plain"
IsTupleRef(m, a) == a.k = "ref" /\ m.heap[a.id].kind = "tuple"
IsArrayRef(m, a) == a.k = "ref" /\ m.heap[a.id].kind = "array"

RECURSIVE DomainBits(_, _)
DomainBits(n, w) == IF Pow2(w) >= n THEN w ELSE DomainBits(n, w + 1)

\* calculate_array_domain_width for the finite array type
calculate_array_domain_width == DomainBits(ArrLen, 1)

\* calculate_array_domain_width for an array of n elements
array_domain_width(n) == DomainBits(n, 1)

IndexTerm(idx) == ConstTerm(idx, BvSort(calculate_array_domain_width))

\* if-then-else with its branches exchanged
smt_ast_ite_swapped(m, a, cond, falseop) ==
  IF IsPlain(falseop)
  THEN [m |-> m, ast |-> Plain(IteTerm(cond, falseop.t, a.t))]
  ELSE NullCall(m)

smt_ast_ite(m, a, cond, falseop) ==
  IF IsPlain(falseop)
  THEN [m |-> m, ast |-> Plain(IteTerm(cond, a.t, falseop.t))]
  ELSE NullCall(m)

smt_ast_eq(m, a, other) ==
  IF IsPlain(other)
  THEN [m |-> m, ast |-> Plain(EqTerm(a.t, other.t))]
  ELSE NullCall(m)

\* update that accepts a term of any sort
smt_ast_update_unchecked(m, a, value, idx, idx_expr) ==
  LET index == IF idx_expr = NilE THEN IndexTerm(idx) ELSE idx_expr
  IN IF IsPlain(value)
     THEN [m |-> m, ast |-> Plain(StoreTerm(a.t, index, value.t))]
     ELSE NullCall(m)

\* idx_expr is NilE or an already converted index term
smt_ast_update(m, a, value, idx, idx_expr) ==
  IF a.t.sort.id # "array" THEN [m |-> Abort(m), ast |-> NoResult]
  ELSE LET index == IF idx_expr = NilE THEN IndexTerm(idx) ELSE idx_expr
       IN IF IsPlain(value)
          THEN [m |-> m, ast |-> Plain(StoreTerm(a.t, index, value.t))]
          ELSE NullCall(m)

no_bools_in_arrays == FALSE

smt_ast_select(m, a, idx) ==
  IF a.t.sort.id # "array" THEN [m |-> Abort(m), ast |-> NoResult]
  ELSE LET range_sort == IF a.t.sort.width = 1 /\ ~no_bools_in_arrays
                         THEN BoolSort ELSE BvSort(a.t.sort.width)
       IN [m |-> m, ast |-> Plain(SelectTerm(a.t, idx, range_sort))]

RECURSIVE ast_ite(_, _, _, _)
RECURSIVE tuple_ite_fields(_, _, _, _, _, _)
RECURSIVE array_ite_fields(_, _, _, _, _, _)

tuple_ite_fields(m, rid, tid, cond, fid, i) ==
  IF m.fault \/ i > Len(get_type_def(m.heap[tid].sort).members) THEN m
  ELSE LET store(r) ==
             IF r.m.fault THEN r.m
             ELSE tuple_ite_fields([r.m EXCEPT !.heap[rid].elements[i] = r.ast],
                                   rid, tid, cond, fid, i + 1)
           merge(truepart, falsepart) ==
             store(ast_ite(falsepart.m, truepart.ast, cond, falsepart.ast))
           second(truepart) ==
             merge(truepart, tuple_project(truepart.m, fid, i - 1))
       IN second(tuple_project(m, tid, i - 1))

\* merge returning a free result term
tuple_ite_lazy(m, tid, cond, fid) ==
  LET g == mk_fresh_name(m, "tuple_ite::")
  IN [m |-> Alloc(g.m, tuple_smt_ast(m.heap[tid].sort, g.name \o <<".">>)),
      ast |-> Ref(NewId(g.m))]

\* merge naming its result after the true operand
tuple_ite_reusing_name(m, tid, cond, fid) ==
  LET g == [m |-> m, name |-> SubSeq(m.heap[tid].name, 1,
                                     Len(m.heap[tid].name) - 1)]
      m1 == Alloc(g.m, tuple_smt_ast(m.heap[tid].sort, g.name \o <<".">>))
      rid == NewId(g.m)
      data == get_type_def(m.heap[tid].sort)
  IN ResultOf(
       tuple_ite_fields(
         [make_free(make_free(m1, tid), fid)
            EXCEPT !.heap[rid].elements = Nulls(Len(data.members))],
         rid, tid, cond, fid, 1),
       Ref(rid))

tuple_ite(m, tid, cond, fid) ==
  LET g == mk_fresh_name(m, "tuple_ite::")
      m1 == Alloc(g.m, tuple_smt_ast(m.heap[tid].sort, g.name \o <<".">>))
      rid == NewId(g.m)
      data == get_type_def(m.heap[tid].sort)
  IN ResultOf(
       tuple_ite_fields(
         [make_free(make_free(m1, tid), fid)
            EXCEPT !.heap[rid].elements = Nulls(Len(data.members))],
         rid, tid, cond, fid, 1),
       Ref(rid))

array_ite_fields(m, rid, tid, cond, fid, i) ==
  IF m.fault \/ i > Len(m.heap[rid].elements) THEN m
  ELSE LET store(r) ==
             IF r.m.fault THEN r.m
             ELSE array_ite_fields([r.m EXCEPT !.heap[rid].elements[i] = r.ast],
                                   rid, tid, cond, fid, i + 1)
       IN store(ast_ite(m, m.heap[tid].elements[i], cond,
                        m.heap[fid].elements[i]))

array_ite(m, tid, cond, fid) ==
  LET g == mk_fresh_name(m, "tuple_array_ite::")
      into(n) ==
        ResultOf(array_ite_fields(n.m, n.ast.id, tid, cond, fid, 1), n.ast)
  IN into(array_smt_ast(g.m, m.heap[tid].sort, g.name \o <<".">>))

ast_ite(m, a, cond, falseop) ==
  IF a.k = "null" THEN NullCall(m)
  ELSE IF IsPlain(a) THEN smt_ast_ite(m, a, cond, falseop)
  ELSE IF falseop.k # "ref" THEN NullCall(m)
  ELSE IF IsTupleRef(m, a) THEN tuple_ite(m, a.id, cond, falseop.id)
  ELSE array_ite(m, a.id, cond, falseop.id)

make_conjunct(eqs) == AndTerm(eqs)

\* the conjunction of the equalities built, or no term after a fault
ConjunctOf(r) ==
  [m |-> r.m,
   ast |-> IF r.m.fault THEN NoResult ELSE Plain(make_conjunct(r.eqs))]

RECURSIVE ast_eq(_, _, _)
RECURSIVE tuple_eq_fields(_, _, _, _, _)
RECURSIVE array_eq_fields(_, _, _, _, _)

\* returns the machine and the equalities built so far
tuple_eq_fields(m, ta, tb, eqs, i) ==
  IF m.fault \/ i > Len(get_type_def(m.heap[ta].sort).members)
  THEN [m |-> m, eqs |-> eqs]
  ELSE LET push(r) ==
             IF r.m.fault THEN [m |-> r.m, eqs |-> eqs]
             ELSE tuple_eq_fields(r.m, ta, tb, Append(eqs, r.ast.t), i + 1)
           compare(side1, side2) ==
             push(ast_eq(side2.m, side1.ast, side2.ast))
           second(side1) == compare(side1, tuple_project(side1.m, tb, i - 1))
       IN second(tuple_project(m, ta, i - 1))

\* equality that leaves out the first field
tuple_eq_skipping_field(m, ta, tb) ==
  ConjunctOf(tuple_eq_fields(make_free(m, tb), ta, tb, <<>>, 2))

tuple_eq(m, ta, tb) ==
  ConjunctOf(tuple_eq_fields(make_free(m, tb), ta, tb, <<>>, 1))

array_eq_fields(m, ta, tb, eqs, i) ==
  IF m.fault
     \/ i > Len(get_type_def(m.heap[ta].sort.subtype).members)
  THEN [m |-> m, eqs |-> eqs]
  ELSE LET push(r) ==
             IF r.m.fault THEN [m |-> r.m, eqs |-> eqs]
             ELSE array_eq_fields(r.m, ta, tb, Append(eqs, r.ast.t), i + 1)
       IN push(ast_eq(m, m.heap[ta].elements[i], m.heap[tb].elements[i]))

array_eq(m, ta, tb) == ConjunctOf(array_eq_fields(m, ta, tb, <<>>, 1))

ast_eq(m, a, other) ==
  IF a.k = "null" THEN NullCall(m)
  ELSE IF IsPlain(a) THEN smt_ast_eq(m, a, other)
  ELSE IF other.k # "ref" THEN NullCall(m)
  ELSE IF IsTupleRef(m, a) THEN tuple_eq(m, a.id, other.id)
  ELSE array_eq(m, a.id, other.id)

\* tuple_smt_ast::assign: this = dst, filled from other
tuple_assign(m, dst, other) ==
  LET fill(m1) ==
        IF Len(m1.heap[dst].elements) # 0 THEN Abort(m1)
        ELSE [m1 EXCEPT !.heap[dst].elements = m1.heap[other].elements]
  IN fill(make_free(m, other))

\* assign without the free-flag assertion
array_assign_unguarded(m, dst, src) ==
  [m EXCEPT !.heap[dst].elements = m.heap[src].elements,
            !.heap[dst].is_still_free = FALSE]

array_assign(m, dst, src) ==
  IF ~m.heap[dst].is_still_free THEN Abort(m)
  ELSE [m EXCEPT !.heap[dst].elements = m.heap[src].elements,
                 !.heap[dst].is_still_free = FALSE]

\* update writing the value into the term itself
tuple_update_in_place(m, id, value, idx) ==
  LET write(m1) ==
        IF idx < Len(m1.heap[id].elements)
        THEN [m |-> [m1 EXCEPT !.heap[id].elements[idx + 1] = value],
              ast |-> Ref(id)]
        ELSE [m |-> Abort(m1), ast |-> NoResult]
  IN write(make_free(m, id))

\* writing elements[idx] past the end of the vector: undefined behaviour
tuple_update(m, id, value, idx) ==
  LET g == mk_fresh_name(m, "tuple_update::")
      rid == NewId(g.m)
      obj == [tuple_smt_ast(m.heap[id].sort, g.name \o <<".">>)
                EXCEPT !.elements = m.heap[id].elements]
      write(m1) ==
        IF idx < Len(m1.heap[rid].elements)
        THEN [m |-> [m1 EXCEPT !.heap[rid].elements[idx + 1] = value],
              ast |-> Ref(rid)]
        ELSE IF m.ub = "crash" THEN [m |-> Abort(m1), ast |-> NoResult]
             ELSE [m |-> m1, ast |-> Ref(rid)]
  IN write(make_free(Alloc(g.m, obj), rid))

ast_project(m, a, idx) ==
  IF a.k = "null" THEN NullCall(m)
  ELSE IF IsPlain(a) THEN [m |-> Abort(m), ast |-> NoResult]
  ELSE project(m, a.id, idx)

RECURSIVE array_update_fields(_, _, _, _, _, _)
array_update_fields(m, rid, id, value, index, i) ==
  IF m.fault
     \/ i > Len(get_type_def(m.heap[id].sort.subtype).members)
  THEN m
  ELSE LET field == m.heap[id].elements[i]
           store(updated) ==
             IF updated.m.fault THEN updated.m
             ELSE array_update_fields(
                    [updated.m EXCEPT !.heap[rid].elements[i] = updated.ast],
                    rid, id, value, index, i + 1)
           update(resval) ==
             store(IF resval.m.fault THEN resval
                   ELSE IF field.k = "null" THEN NullCall(resval.m)
                   ELSE IF ~IsPlain(field)
                        THEN [m |-> Abort(resval.m), ast |-> NoResult]
                        ELSE smt_ast_update(resval.m, field, resval.ast,
                                            0, index))
       IN update(ast_project(m, value, i - 1))

\* update that always stores at index 0
array_update_at_zero(m, id, value, idx, idx_expr) ==
  LET g == mk_fresh_name(m, "tuple_array_update::")
      into(n) ==
        ResultOf(array_update_fields(n.m, n.ast.id, id, value, IndexTerm(0), 1),
                 n.ast)
  IN into(array_smt_ast(g.m, m.heap[id].sort, g.name \o <<".">>))

array_update(m, id, value, idx, idx_expr) ==
  LET index == IF idx_expr = NilE THEN IndexTerm(idx) ELSE idx_expr
      g == mk_fresh_name(m, "tuple_array_update::")
      into(n) ==
        ResultOf(array_update_fields(n.m, n.ast.id, id, value, index, 1), n.ast)
  IN into(array_smt_ast(g.m, m.heap[id].sort, g.name \o <<".">>))

tuple_select(m, id, idx) == [m |-> Abort(m), ast |-> NoResult]

RECURSIVE array_select_fields(_, _, _, _, _)
array_select_fields(m, rid, id, idx, i) ==
  IF m.fault \/ i > Len(m.heap[rid].elements) THEN m
  ELSE LET sub_array == m.heap[id].elements[i]
           store(selected) ==
             IF selected.m.fault THEN selected.m
             ELSE array_select_fields(
                    [selected.m EXCEPT !.heap[rid].elements[i] = selected.ast],
                    rid, id, idx, i + 1)
       IN store(IF sub_array.k = "null" THEN NullCall(m)
                ELSE IF ~IsPlain(sub_array)
                     THEN [m |-> Abort(m), ast |-> NoResult]
                     ELSE smt_ast_select(m, sub_array, idx))

array_select(m, id, idx) ==
  LET array_type == m.heap[id].sort
      data == get_type_def(array_type.subtype)
      g == mk_fresh_name(m, "tuple_array_select::")
      rid == NewId(g.m)
      obj == [tuple_smt_ast(array_type.subtype, g.name \o <<".">>)
                EXCEPT !.elements = Nulls(Len(data.members))]
  IN ResultOf(array_select_fields(Alloc(g.m, obj), rid, id, idx, 1), Ref(rid))

(***************************************************************************)
(* Expressions handed to the engine.                                       *)
(***************************************************************************)
IntE(type, v) == [e |-> "int", type |-> type, v |-> v]
BoolE(b) == [e |-> "bool", type |-> ScalarT("bool", 1), b |-> b]
SymE(type, name) == [e |-> "sym", type |-> type, name |-> name]
StructE(type, ops) == [e |-> "struct", type |-> type, ops |-> ops]
UnionE(type, init) == [e |-> "union", type |-> type, ops |-> <<init>>]
PointerE(obj, off) == [e |-> "pointer", obj |-> obj, off |-> off]
\* arrays carry the element count of their type in len
ArrayOfE(type, len, init) ==
  [e |-> "array_of", type |-> type, len |-> len, ops |-> <<init>>]
ArrayE(type, len, ops) == [e |-> "array", type |-> type, len |-> len, ops |-> ops]

null_ptr_ast == Ref(1)
invalid_ptr_ast == Ref(2)

\* mk_tuple_symbol that does not intercept the name NULL
mk_tuple_symbol_no_null(m, expr) ==
  LET name == expr.name IN
  IF name = <<"0">> THEN [m |-> m, ast |-> null_ptr_ast]
  ELSE IF name = <<"INVALID">> THEN [m |-> m, ast |-> invalid_ptr_ast]
  ELSE LET n2 == IF name[Len(name)] # "." THEN name \o <<".">> ELSE name
       IN [m |-> Alloc(m, tuple_smt_ast(expr.type, n2)), ast |-> Ref(NewId(m))]

mk_tuple_symbol(m, expr) ==
  LET name == expr.name IN
  IF name = <<"0">> \/ name = <<"NULL">> THEN [m |-> m, ast |-> null_ptr_ast]
  ELSE IF name = <<"INVALID">> THEN [m |-> m, ast |-> invalid_ptr_ast]
  ELSE LET n2 == IF name[Len(name)] # "." THEN name \o <<".">> ELSE name
       IN [m |-> Alloc(m, tuple_smt_ast(expr.type, n2)), ast |-> Ref(NewId(m))]

mk_tuple_array_symbol(m, expr) ==
  array_smt_ast(m, expr.type, expr.name \o <<"[]">>)

assert_ast(m, a) == [m EXCEPT !.asserted = @ \cup {a.t}]

(***************************************************************************)
(* Fresh value construction.                                               *)
(***************************************************************************)
RECURSIVE convert_ast(_, _)
RECURSIVE tuple_create(_, _)
RECURSIVE tuple_create_fields(_, _, _, _)
RECURSIVE union_create(_, _)
RECURSIVE union_create_fields(_, _, _, _, _, _)
RECURSIVE tuple_array_create_despatch(_, _)
RECURSIVE convert_args(_, _, _, _)
RECURSIVE array_create(_, _)
RECURSIVE array_create_loop(_, _, _, _)
RECURSIVE convert_array_of_prep(_, _)
RECURSIVE convert_array_of(_, _, _)
RECURSIVE tuple_array_of(_, _, _)
RECURSIVE tuple_array_of_fields(_, _, _, _, _, _, _)
RECURSIVE pointer_array_of(_, _, _)

\* tuple_create storing the converted fields in reverse order
tuple_create_fields_reversed(m, rid, structdef, i) ==
  IF m.fault \/ i > Len(structdef.ops) THEN m
  ELSE LET store(tmp) ==
             IF tmp.m.fault THEN tmp.m
             ELSE tuple_create_fields(
                    [tmp.m EXCEPT
                       !.heap[rid].elements[Len(structdef.ops) - i + 1] =
                         tmp.ast],
                    rid, structdef, i + 1)
       IN store(convert_ast(m, structdef.ops[i]))

tuple_create_fields(m, rid, structdef, i) ==
  IF m.fault \/ i > Len(structdef.ops) THEN m
  ELSE LET store(tmp) ==
             IF tmp.m.fault THEN tmp.m
             ELSE tuple_create_fields(
                    [tmp.m EXCEPT !.heap[rid].elements[i] = tmp.ast],
                    rid, structdef, i + 1)
       IN store(convert_ast(m, structdef.ops[i]))

tuple_create(m, structdef) ==
  LET g == mk_fresh_name(m, "tuple_create::")
      rid == NewId(g.m)
      obj == [tuple_smt_ast(structdef.type, g.name \o <<".">>)
                EXCEPT !.elements = Nulls(Len(structdef.ops))]
  IN ResultOf(tuple_create_fields(Alloc(g.m, obj), rid, structdef, 1),
              Ref(rid))

union_create_fields(m, rid, def, init, init_ast, i) ==
  IF m.fault \/ i > Len(def.members) THEN m
  ELSE LET it == def.members[i]
           store(r) == [r.m EXCEPT !.heap[rid].elements[i] = r.ast]
           constrain(e) ==
             IF e.m.fault THEN e.m
             ELSE [assert_ast(e.m, e.ast)
                     EXCEPT !.heap[rid].elements[i] = init_ast]
           compare(target_memb) ==
             constrain(ast_eq(target_memb.m, target_memb.ast, init_ast))
           g == mk_fresh_name(m, "union_create_elem")
       IN union_create_fields(
            IF base_type_eq(it, init.type)
            THEN compare(project(m, rid, i - 1))
            ELSE IF is_tuple_ast_type(it)
                 THEN store(tuple_fresh(m, it, <<>>))
                 ELSE IF is_tuple_array_ast_type(it)
                      THEN store(array_smt_ast(g.m, it, g.name))
                      ELSE m,
            rid, def, init, init_ast, i + 1)

union_create(m, unidef) ==
  LET g == mk_fresh_name(m, "union_create::")
      name == g.name \o <<".">>
      result == SymE(unidef.type, name)
      def == get_type_def(unidef.type)
      init == unidef.ops[1]
      finish(m2) ==
        IF m2.fault THEN [m |-> m2, ast |-> NoResult]
        ELSE [m |-> Alloc(m2, tuple_smt_ast(unidef.type, name)),
              ast |-> Ref(NewId(m2))]
      fill(rid, init_ast) ==
        finish(IF init_ast.m.fault THEN init_ast.m
               ELSE union_create_fields(
                      [init_ast.m EXCEPT
                         !.heap[rid].elements = Nulls(Len(def.members))],
                      rid, def, init, init_ast.ast, 1))
      convert_init(result_ast) ==
        fill(result_ast.ast.id, convert_ast(result_ast.m, init))
  IN convert_init(convert_ast(g.m, result))

RECURSIVE tuple_array_create_loop(_, _, _, _, _, _)
\* the store loop stopping one index early
tuple_array_create_loop_short(m, newsym, inputargs, const_array, sz, i) ==
  IF m.fault \/ i + 1 >= sz THEN [m |-> m, ast |-> newsym]
  ELSE LET arg == IF const_array THEN inputargs[1] ELSE inputargs[i + 1]
           next(u) ==
             IF u.m.fault THEN u
             ELSE tuple_array_create_loop(u.m, u.ast, inputargs, const_array,
                                          sz, i + 1)
       IN next(array_update(m, newsym.id, arg, i, NilE))

tuple_array_create_loop(m, newsym, inputargs, const_array, sz, i) ==
  IF m.fault \/ i >= sz THEN [m |-> m, ast |-> newsym]
  ELSE LET arg == IF const_array THEN inputargs[1] ELSE inputargs[i + 1]
           next(u) ==
             IF u.m.fault THEN u
             ELSE tuple_array_create_loop(u.m, u.ast, inputargs, const_array,
                                          sz, i + 1)
       IN next(array_update(m, newsym.id, arg, i, NilE))

\* creation that stores into an infinite-sized array as well
tuple_array_create_storing_infinite(m, array_type, inputargs, const_array) ==
  LET g == mk_fresh_name(m, "tuple_array_create::")
      arr_type == array_type
      fill(newsym) ==
        IF arr_type.size \notin {"infinite", "const"}
        THEN [m |-> Abort(newsym.m), ast |-> NoResult]
        ELSE tuple_array_create_loop(newsym.m, newsym.ast, inputargs,
                                     const_array, ArrLen, 0)
  IN fill(array_smt_ast(g.m, array_type, g.name \o <<".">>))

tuple_array_create(m, array_type, inputargs, const_array) ==
  LET g == mk_fresh_name(m, "tuple_array_create::")
      arr_type == array_type
      fill(newsym) ==
        IF arr_type.size = "infinite" THEN newsym
        ELSE IF arr_type.size # "const"
             THEN [m |-> Abort(newsym.m), ast |-> NoResult]
             ELSE tuple_array_create_loop(newsym.m, newsym.ast, inputargs,
                                          const_array, ArrLen, 0)
  IN fill(array_smt_ast(g.m, array_type, g.name \o <<".">>))

convert_args(m, exprs, args, i) ==
  IF m.fault \/ i > Len(exprs) THEN [m |-> m, args |-> args]
  ELSE LET push(a) == convert_args(a.m, exprs, Append(args, a.ast), i + 1)
       IN push(convert_ast(m, exprs[i]))

tuple_array_create_despatch(m, expr) ==
  LET create(a, const_array) ==
        IF a.m.fault THEN [m |-> a.m, ast |-> NoResult]
        ELSE tuple_array_create(a.m, expr.type, a.args, const_array)
      one(arg) == [m |-> arg.m, args |-> <<arg.ast>>]
  IN IF expr.e = "array_of"
     THEN create(one(convert_ast(m, expr.ops[1])), TRUE)
     ELSE create(convert_args(m, expr.ops, <<>>, 1), FALSE)

\* the converted initializers tuple_array_create_despatch hands on
despatch_args(m, expr) == convert_args(m, expr.ops, <<>>, 1).args

\* the stores of array_create: newsym_ast is the array built so far
array_create_loop(m, newsym_ast, array, i) ==
  IF m.fault \/ i >= array.len THEN [m |-> m, ast |-> newsym_ast]
  ELSE LET next(u) ==
             IF u.m.fault THEN u
             ELSE array_create_loop(u.m, u.ast, array, i + 1)
           store(init) ==
             next(IF init.m.fault THEN init
                  ELSE smt_ast_update(init.m, newsym_ast, init.ast, i, NilE))
       IN store(convert_ast(m, array.ops[i + 1]))

array_create(m, expr) ==
  IF expr.e = "array_of" THEN convert_array_of_prep(m, expr)
  ELSE LET g == mk_fresh_name(m, "array_create::")
           newsym == SymE(expr.type, g.name \o <<".">>)
           arr_type == expr.type
           fill(newsym_ast) ==
             array_create_loop(newsym_ast.m, newsym_ast.ast, expr, 0)
       IN IF arr_type.size = "infinite" THEN convert_ast(g.m, newsym)
          ELSE IF arr_type.size # "const"
               THEN [m |-> Abort(g.m), ast |-> NoResult]
               ELSE fill(convert_ast(g.m, newsym))

\* for an array whose element type is not itself an array
convert_array_of_prep(m, expr) ==
  LET base_init == expr.ops[1]
      array_size == array_domain_width(expr.len)
  IN IF is_structure_type(base_init.type)
     THEN tuple_array_of(m, base_init, array_size)
     ELSE IF is_pointer_type(base_init.type)
          THEN pointer_array_of(m, base_init, array_size)
          ELSE convert_array_of(m, base_init, array_size)

convert_array_of(m, init_val, array_size) ==
  convert_ast(m, ArrayE(array_type_of(init_val.type), Pow2(array_size),
                        [j \in 1..Pow2(array_size) |-> init_val]))

\* the loop of tuple_array_of; newsym carries the machine and the result
tuple_array_of_fields(newsym, name, arrtype, subtype, data, array_size, i) ==
  IF newsym.m.fault \/ i > Len(subtype.members)
  THEN ResultOf(newsym.m, newsym.ast)
  ELSE LET val == data[i]
           sub_array_of == ArrayOfE(array_type_of(val.type), array_size, val)
           target(tuple_arr_of_sym_ast) ==
             IF tuple_arr_of_sym_ast.m.fault THEN tuple_arr_of_sym_ast
             ELSE ast_project(tuple_arr_of_sym_ast.m,
                              tuple_arr_of_sym_ast.ast, i - 1)
           with_target(target_array, sub_array_of_ast) ==
             [m |-> sub_array_of_ast.m, ast |-> sub_array_of_ast.ast,
              target_array |-> target_array.ast]
           convert_sub(target_array) ==
             IF target_array.m.fault THEN target_array
             ELSE with_target(target_array,
                              convert_ast(target_array.m, sub_array_of))
           compare(sides) ==
             IF sides.m.fault THEN sides
             ELSE ast_eq(sides.m, sides.target_array, sides.ast)
           constrain(e) ==
             [m |-> IF e.m.fault THEN e.m ELSE assert_ast(e.m, e.ast),
              ast |-> newsym.ast]
       IN tuple_array_of_fields(
            constrain(compare(convert_sub(target(
              convert_ast(newsym.m, SymE(arrtype, name)))))),
            name, arrtype, subtype, data, array_size, i + 1)

tuple_array_of(m, init_val, array_size) ==
  LET subtype == get_type_def(init_val.type)
      data == init_val.ops
      arrtype == array_type_of(init_val.type)
      g == mk_fresh_name(m, "tuple_array_of::")
      name == g.name \o <<".">>
      checked(newsym) ==
        IF Len(subtype.members) # Len(data)
        THEN [m |-> Abort(newsym.m), ast |-> NoResult]
        ELSE newsym
  IN tuple_array_of_fields(checked(array_smt_ast(g.m, arrtype, name)),
                           name, arrtype, subtype, data, array_size, 1)

pointer_array_of(m, init_val, array_width) ==
  IF init_val.e # "sym" \/ init_val.name # <<"NULL">>
  THEN [m |-> Abort(m), ast |-> NoResult]
  ELSE tuple_array_of(m, StructE(pointer_struct,
                                 <<IntE(machine_ptr, 0), IntE(machine_ptr, 0)>>),
                      array_width)

\* the engine's classification of an expression
convert_ast(m, expr) ==
  CASE expr.e = "int" ->
         [m |-> m,
          ast |-> Plain(ConstTerm(expr.v % Pow2(expr.type.width),
                                  convert_sort(expr.type)))]
    [] expr.e = "bool" ->
         [m |-> m,
          ast |-> Plain(ConstTerm(IF expr.b THEN 1 ELSE 0, BoolSort))]
    [] expr.e = "sym" ->
         IF is_tuple_ast_type(expr.type) THEN mk_tuple_symbol(m, expr)
         ELSE IF is_tuple_array_ast_type(expr.type)
              THEN mk_tuple_array_symbol(m, expr)
              ELSE mk_fresh(m, convert_sort(expr.type), expr.name)
    [] expr.e = "struct" -> tuple_create(m, expr)
    [] expr.e = "union" -> union_create(m, expr)
    [] expr.e \in {"array_of", "array"} ->
         IF is_tuple_array_ast_type(expr.type)
         THEN tuple_array_create_despatch(m, expr)
         ELSE array_create(m, expr)

(***************************************************************************)
(* Models of the backend and read-back.                                    *)
(***************************************************************************)
SymVals == {0, 1}
IndexDomain == 0..(ArrLen - 1)

RECURSIVE SymsOf(_)
RECURSIVE SymsOfSeq(_, _)
SymsOfSeq(ts, i) ==
  IF i > Len(ts) THEN {} ELSE SymsOf(ts[i]) \cup SymsOfSeq(ts, i + 1)
SymsOf(t) ==
  CASE t.op \in {"sym", "undef"} -> {t}
    [] t.op = "const" -> {}
    [] t.op = "ite" -> SymsOf(t.c) \cup SymsOf(t.a) \cup SymsOf(t.b)
    [] t.op = "eq" -> SymsOf(t.a) \cup SymsOf(t.b)
    [] t.op = "and" -> SymsOfSeq(t.args, 1)
    [] t.op = "store" -> SymsOf(t.a) \cup SymsOf(t.i) \cup SymsOf(t.v)
    [] t.op = "select" -> SymsOf(t.a) \cup SymsOf(t.i)

\* every assignment of values to the symbols of S
ModelsOver(S) ==
  LET A == {x \in S : x.sort.id = "array"}
  IN {[s |-> sv, a |-> av] :
        sv \in [S \ A -> SymVals], av \in [A -> [IndexDomain -> SymVals]]}

RECURSIVE Eval(_, _)
RECURSIVE EvalAnd(_, _, _)
EvalAnd(ts, mdl, i) ==
  IF i > Len(ts) THEN 1
  ELSE IF Eval(ts[i], mdl) = 1 THEN EvalAnd(ts, mdl, i + 1) ELSE 0
Eval(t, mdl) ==
  CASE t.op \in {"sym", "undef"} ->
         IF t.sort.id = "array" THEN mdl.a[t] ELSE mdl.s[t]
    [] t.op = "const" -> t.v
    [] t.op = "ite" ->
         IF Eval(t.c, mdl) = 1 THEN Eval(t.a, mdl) ELSE Eval(t.b, mdl)
    [] t.op = "eq" -> IF Eval(t.a, mdl) = Eval(t.b, mdl) THEN 1 ELSE 0
    [] t.op = "and" -> EvalAnd(t.args, mdl, 1)
    [] t.op = "store" ->
         [Eval(t.a, mdl) EXCEPT ![Eval(t.i, mdl)] = Eval(t.v, mdl)]
    [] t.op = "select" -> Eval(t.a, mdl)[Eval(t.i, mdl)]

get_bv(type, a, mdl) == IntE(type, Eval(a.t, mdl))
get_bool(a, mdl) == BoolE(Eval(a.t, mdl) = 1)

\* pointer_logic's pointer_expr: object 0 is the null pointer
pointer_expr(num, offs) ==
  IF num = 0 /\ offs = 0 THEN SymE(TypeDef.ptr, <<"NULL">>) ELSE PointerE(num, offs)

UndefE == [e |-> "undef"]

RECURSIVE tuple_get_rec(_, _, _)
RECURSIVE tuple_get_fields(_, _, _, _, _)
tuple_get_fields(h, id, mdl, strct, i) ==
  IF i > Len(strct.members) THEN <<>>
  ELSE LET it == strct.members[i]
           el == h[id].elements[i]
           res == IF is_tuple_ast_type(it)
                  THEN IF el.k = "ref" THEN tuple_get_rec(h, el.id, mdl)
                       ELSE UndefE
                  ELSE IF is_tuple_array_ast_type(it) THEN NilE
                  ELSE IF is_number_type(it)
                       THEN IF IsPlain(el) THEN get_bv(it, el, mdl)
                            ELSE UndefE
                  ELSE IF is_bool_type(it)
                       THEN IF IsPlain(el) THEN get_bool(el, mdl)
                            ELSE UndefE
                  ELSE NilE
       IN <<res>> \o tuple_get_fields(h, id, mdl, strct, i + 1)

\* read-back without the pointer rewrite
tuple_get_rec_no_rewrite(h, id, mdl) ==
  LET sort == h[id].sort
      strct == get_type_def(sort)
  IN IF Len(h[id].elements) = 0
     THEN StructE(sort, [j \in 1..Len(strct.members) |-> NilE])
     ELSE StructE(sort, tuple_get_fields(h, id, mdl, strct, 1))

\* read-back that gives a free term no placeholders
tuple_get_rec_no_placeholders(h, id, mdl) ==
  LET sort == h[id].sort
      strct == get_type_def(sort)
  IN IF Len(h[id].elements) = 0
     THEN StructE(sort, <<>>)
     ELSE LET members == tuple_get_fields(h, id, mdl, strct, 1)
          IN IF is_pointer_type(sort) \/ sort = pointer_struct
             THEN IF members[1].e = "int" /\ members[2].e = "int"
                  THEN pointer_expr(members[1].v, members[2].v)
                  ELSE UndefE
             ELSE StructE(sort, members)

tuple_get_rec(h, id, mdl) ==
  LET sort == h[id].sort
      strct == get_type_def(sort)
  IN IF Len(h[id].elements) = 0
     THEN StructE(sort, [j \in 1..Len(strct.members) |-> NilE])
     ELSE LET members == tuple_get_fields(h, id, mdl, strct, 1)
          IN IF is_pointer_type(sort) \/ sort = pointer_struct
             THEN IF members[1].e = "int" /\ members[2].e = "int"
                  THEN pointer_expr(members[1].v, members[2].v)
                  ELSE UndefE
             ELSE StructE(sort, members)

(***************************************************************************)
(* State machine.                                                          *)
(***************************************************************************)
SentinelObj(obj, name) ==
  [kind |-> "tuple", sort |-> pointer_struct, name |-> name,
   elements |-> <<Plain(ConstTerm(obj, BvSort(PtrWidth))),
                  Plain(ConstTerm(0, BvSort(PtrWidth)))>>,
   is_still_free |-> FALSE]

PostInit ==
  <<SentinelObj(0, <<"tuple_create::", "0", ".">>),
    SentinelObj(1, <<"tuple_create::", "1", ".">>)>>

Init ==
  /\ heap = PostInit
  /\ ctr = 2
  /\ syms = {}
  /\ asserted = {}
  /\ fault = FALSE
  /\ handles = {}
  /\ last = [op |-> "init"]
  /\ nops = 0

\* the terms the caller holds: every term an operation has returned
Held(res) == IF res.k = "ref" THEN {res.id} ELSE {}

Commit(m, l) ==
  /\ heap' = m.heap
  /\ ctr' = m.ctr
  /\ syms' = m.syms
  /\ asserted' = m.asserted
  /\ fault' = m.fault
  /\ handles' = handles \cup Held(l.res)
  /\ last' = l
  /\ nops' = nops + 1

Ready == ~fault /\ nops < MaxOps /\ Len(heap) < MaxTerms

TupleIds == {i \in handles : heap[i].kind = "tuple"}
ArrayIds == {i \in handles : heap[i].kind = "array"}
SameSort(a, b) == heap[a].kind = heap[b].kind /\ heap[a].sort = heap[b].sort

SymbolNames == {<<"x">>, <<"NULL">>, <<"0">>, <<"INVALID">>}
SymbolTypes == {TypeDef.S, TypeDef.N, TypeDef.T, TypeDef.ptr}

LitS(v, b) == StructE(TypeDef.S, <<IntE(TypeDef.u8, v), BoolE(b)>>)
Literals ==
  { LitS(7, TRUE),
    StructE(TypeDef.N, <<LitS(255, FALSE), IntE(TypeDef.u8, 3)>>),
    StructE(pointer_struct, <<IntE(machine_ptr, 0), IntE(machine_ptr, 0)>>),
    StructE(pointer_struct, <<IntE(machine_ptr, 2), IntE(machine_ptr, 1)>>) }

UnionLiterals ==
  { UnionE(TypeDef.U, IntE(TypeDef.u8, 7)), UnionE(TypeDef.U, BoolE(TRUE)),
    UnionE(TypeDef.V, IntE(TypeDef.u8, 7)), UnionE(TypeDef.V, LitS(7, TRUE)) }

ArrayExprs ==
  { [e |-> "array_of", type |-> TypeDef.AS, ops |-> <<LitS(7, TRUE)>>],
    [e |-> "array_of", type |-> TypeDef.AS, ops |-> <<SymE(TypeDef.S, <<"x">>)>>],
    [e |-> "array", type |-> TypeDef.AS,
     ops |-> [j \in 1..ArrLen |-> LitS(j, j % 2 = 0)]],
    [e |-> "array_of", type |-> TypeDef.AI, ops |-> <<LitS(7, TRUE)>>],
    [e |-> "array_of", type |-> TypeDef.AX, ops |-> <<LitS(7, TRUE)>>] }

Conds == {SymTerm(<<"c">>, BoolSort)}

\* well-typed values for field type ft
UpdateValues(ft) ==
  IF is_tuple_ast_type(ft) \/ is_tuple_array_ast_type(ft)
  THEN {Ref(h) : h \in {i \in handles : heap[i].sort = ft}}
  ELSE {Plain(SymTerm(<<"v">>, convert_sort(ft)))}

FieldType(id, idx) ==
  LET data == get_type_def(heap[id].sort)
  IN IF idx < Len(data.members) THEN data.members[idx + 1] ELSE TypeDef.u8

MkTupleSymbol ==
  /\ Ready
  /\ \E name \in SymbolNames, type \in SymbolTypes :
       /\ name \in {<<"NULL">>, <<"0">>, <<"INVALID">>} => type = TypeDef.ptr
       /\ LET done(r) == Commit(r.m, [op |-> "mk_tuple_symbol", name |-> name,
                                      type |-> type, res |-> r.ast])
          IN done(mk_tuple_symbol(Machine("crash"), SymE(type, name)))

MkTupleArraySymbol ==
  /\ Ready
  /\ LET done(r) == Commit(r.m, [op |-> "mk_tuple_array_symbol",
                                 res |-> r.ast])
     IN done(mk_tuple_array_symbol(Machine("crash"), SymE(TypeDef.AS, <<"arr">>)))

Project ==
  /\ Ready
  /\ \E id \in handles, idx \in 0..MaxIdx :
       LET done(r) == Commit(r.m, [op |-> "project", self |-> id,
                                   idx |-> idx,
                                   was_free |-> Len(heap[id].elements) = 0,
                                   res |-> r.ast])
       IN done(project(Machine("crash"), id, idx))

Assign ==
  /\ Ready
  /\ \E dst \in handles, src \in handles :
       /\ SameSort(dst, src)
       /\ LET m == IF heap[dst].kind = "tuple"
                   THEN tuple_assign(Machine("crash"), dst, src)
                   ELSE array_assign(Machine("crash"), dst, src)
          IN Commit(m, [op |-> "assign", self |-> dst, other |-> src,
                        res |-> NoResult])

Equality ==
  /\ Ready
  /\ \E a \in handles, b \in handles :
       /\ SameSort(a, b)
       /\ LET done(r) == Commit(r.m, [op |-> "eq", self |-> a, other |-> b,
                                      res |-> r.ast])
          IN done(ast_eq(Machine("crash"), Ref(a), Ref(b)))

Merge ==
  /\ Ready
  /\ \E a \in handles, b \in handles, c \in Conds :
       /\ SameSort(a, b)
       /\ LET done(r) == Commit(r.m, [op |-> "ite", self |-> a, other |-> b,
                                      cond |-> c, res |-> r.ast])
          IN done(ast_ite(Machine("crash"), Ref(a), c, Ref(b)))

Update ==
  /\ Ready
  /\ \E id \in TupleIds, idx \in 0..MaxIdx, ub \in UBOutcomes :
       \E value \in UpdateValues(FieldType(id, idx)) :
         LET done(r) == Commit(r.m, [op |-> "update", self |-> id,
                                     idx |-> idx, value |-> value,
                                     res |-> r.ast])
         IN done(tuple_update(Machine(ub), id, value, idx))

ArrayUpdate ==
  /\ Ready
  /\ \E id \in ArrayIds, idx \in 0..(ArrLen - 1) :
       \E value \in UpdateValues(heap[id].sort.subtype) :
         LET done(r) == Commit(r.m, [op |-> "array_update", self |-> id,
                                     idx |-> idx, value |-> value,
                                     res |-> r.ast])
         IN done(array_update(Machine("crash"), id, value, idx, NilE))

Select ==
  /\ Ready
  /\ \E id \in handles, idx \in 0..(ArrLen - 1) :
       LET done(r) == Commit(r.m, [op |-> "select", self |-> id, idx |-> idx,
                                   res |-> r.ast])
       IN done(IF heap[id].kind = "tuple"
               THEN tuple_select(Machine("crash"), id, IndexTerm(idx))
               ELSE array_select(Machine("crash"), id, IndexTerm(idx)))

TupleCreate ==
  /\ Ready
  /\ \E L \in Literals :
       LET done(r) == Commit(r.m, [op |-> "tuple_create", expr |-> L,
                                   res |-> r.ast])
       IN done(convert_ast(Machine("crash"), L))

UnionCreate ==
  /\ Ready
  /\ \E L \in UnionLiterals, ub \in UBOutcomes :
       LET done(r) == Commit(r.m, [op |-> "union_create", expr |-> L,
                                   res |-> r.ast])
       IN done(convert_ast(Machine(ub), L))

TupleArrayCreate ==
  /\ Ready
  /\ \E A \in ArrayExprs :
       LET done(r, args) == Commit(r.m, [op |-> "tuple_array_create",
                                         expr |-> A, args |-> args,
                                         res |-> r.ast])
       IN done(convert_ast(Machine("crash"), A),
               despatch_args(Machine("crash"), A))

\* the element count of the repeated-initializer arrays: its domain width
\* is above the one-bit minimum
ArrayOfLen == ArrLen + 1

\* repeated-initializer arrays as convert_array_of_prep receives them
ArrayOfExprs ==
  { ArrayOfE(TypeDef.AS, ArrayOfLen, LitS(7, TRUE)),
    ArrayOfE(array_type_of(pointer_struct), ArrayOfLen, SymE(TypeDef.ptr, <<"NULL">>)),
    ArrayOfE(array_type_of(pointer_struct), ArrayOfLen, SymE(TypeDef.ptr, <<"x">>)),
    ArrayOfE(array_type_of(TypeDef.u8), ArrayOfLen, IntE(TypeDef.u8, 7)) }

\* Plain terms the encoder holds: a bit-vector and an array of bit-vectors
PlainTerms ==
  {Plain(SymTerm(<<"p">>, BvSort(8))), Plain(SymTerm(<<"q">>, ArraySort(8)))}

\* project, update and select applied to a Plain term
PlainOp ==
  /\ Ready
  /\ \E a \in PlainTerms, op \in {"project", "update", "select"} :
       LET done(r) == Commit(r.m, [op |-> "plain_" \o op, term |-> a,
                                   res |-> r.ast])
       IN done(CASE op = "project" -> ast_project(Machine("crash"), a, 0)
                 [] op = "update" ->
                      smt_ast_update(Machine("crash"), a,
                                     Plain(SymTerm(<<"v">>, BvSort(8))), 0, NilE)
                 [] op = "select" ->
                      smt_ast_select(Machine("crash"), a, IndexTerm(0)))

\* the results of tuple_array_of held so far
ArrayOfResults ==
  {i \in 1..Len(heap) : heap[i].name[1] = "tuple_array_of::"
                          /\ Len(heap[i].name) = 3}

ArrayOf ==
  /\ Ready
  /\ Cardinality(ArrayOfResults) < MaxArrayOf
  /\ \E A \in ArrayOfExprs :
       LET done(r) == Commit(r.m, [op |-> "array_of", expr |-> A,
                                   res |-> r.ast])
       IN done(convert_array_of_prep(Machine("crash"), A))

RECURSIVE TermSyms(_, _)
RECURSIVE ChildSyms(_, _, _)
ChildSyms(h, els, i) ==
  IF i > Len(els) THEN {}
  ELSE (IF els[i].k = "plain" THEN SymsOf(els[i].t)
        ELSE IF els[i].k = "ref" THEN TermSyms(h, els[i].id) ELSE {})
       \cup ChildSyms(h, els, i + 1)
TermSyms(h, id) == ChildSyms(h, h[id].elements, 1)

AssertedSyms == UNION {SymsOf(a) : a \in asserted}

\* S with every symbol an asserted formula ties to it, directly or not
RECURSIVE RelatedSyms(_)
RelatedSyms(S) ==
  LET grow(T) == IF T = S THEN S ELSE RelatedSyms(T)
  IN grow(S \cup UNION {SymsOf(a) : a \in {b \in asserted :
                                              SymsOf(b) \cap S # {}}})

\* mdl satisfies every asserted formula over the symbols it assigns
Satisfies(mdl) ==
  \A a \in asserted :
    SymsOf(a) \subseteq (DOMAIN mdl.s \cup DOMAIN mdl.a) => Eval(a, mdl) = 1

\* the asserted formulas have a model: each group of tied symbols has one
Satisfiable ==
  \A s \in AssertedSyms : \E mdl \in ModelsOver(RelatedSyms({s})) : Satisfies(mdl)

\* the models of the backend over the symbols of term id and of the
\* asserted formulas tied to them that satisfy those formulas
SolvedModels(id) ==
  {mdl \in ModelsOver(RelatedSyms(TermSyms(heap, id))) : Satisfies(mdl)}

\* read-back after a satisfiable check, under any model of the backend
TupleGet ==
  /\ Ready
  /\ Satisfiable
  /\ \E id \in TupleIds :
       \E value \in {tuple_get_rec(heap, id, mdl) : mdl \in SolvedModels(id)} :
         Commit(Machine("crash"),
                [op |-> "tuple_get", self |-> id,
                 res |-> NoResult, value |-> value])

Next ==
  \/ MkTupleSymbol
  \/ MkTupleArraySymbol
  \/ Project
  \/ Assign
  \/ Equality
  \/ Merge
  \/ Update
  \/ ArrayUpdate
  \/ Select
  \/ TupleCreate
  \/ UnionCreate
  \/ TupleArrayCreate
  \/ ArrayOf
  \/ PlainOp
  \/ TupleGet

Spec == Init /\ [][Next]_vars

(***************************************************************************)
(* Properties.                                                             *)
(***************************************************************************)
FieldCount(id) ==
  IF heap[id].kind = "array"
  THEN Len(get_type_def(heap[id].sort.subtype).members)
  ELSE Len(get_type_def(heap[id].sort).members)

\* the child term project(id, j) returns in the current state
ProjChild(id, j) == project(Machine("crash"), id, j).ast

\* the Plain leaves below a child slot, in field order
RECURSIVE LeafTerms(_, _)
RECURSIVE LeafTermsSeq(_, _, _)
LeafTermsSeq(h, els, i) ==
  IF i > Len(els) THEN <<>>
  ELSE LeafTerms(h, els[i]) \o LeafTermsSeq(h, els, i + 1)
LeafTerms(h, a) ==
  IF a.k = "plain" THEN <<a.t>>
  ELSE IF a.k = "ref" THEN LeafTermsSeq(h, h[a.id].elements, 1)
  ELSE <<>>

Materialized(id) ==
  /\ Len(heap[id].elements) = FieldCount(id)
  /\ \A j \in 1..FieldCount(id) : heap[id].elements[j] # Null

\* C1: update law.  After update(t, v, i) with i below the field count,
\* project(result, i) is v, and for every other field j project(result, j)
\* is the child term project(t, j) returns.
UpdateLaw ==
  (last.op = "update" /\ last.idx < FieldCount(last.self)) =>
    /\ last.res.k = "ref"
    /\ ProjChild(last.res.id, last.idx) = last.value
    /\ \A j \in 0..(FieldCount(last.self) - 1) :
         j # last.idx => ProjChild(last.res.id, j) = ProjChild(last.self, j)

\* C2: merge law.  For merge(t1, c, t2) every field of the result, down to
\* the Plain leaves of nested fields, equals in every model the field of t1
\* when c is true and the field of t2 when c is false.
MergeLaw ==
  (last.op = "ite" /\ last.res.k = "ref") =>
    LET r == LeafTerms(heap, last.res)
        a == LeafTerms(heap, Ref(last.self))
        b == LeafTerms(heap, Ref(last.other))
    IN /\ Materialized(last.res.id)
       /\ Len(r) = Len(a) /\ Len(r) = Len(b) /\ Len(r) > 0
       /\ \A p \in 1..Len(r) :
            \A mdl \in ModelsOver(SymsOf(r[p]) \cup SymsOf(a[p])
                                  \cup SymsOf(b[p]) \cup SymsOf(last.cond)) :
              Eval(r[p], mdl) = IF Eval(last.cond, mdl) = 1
                                THEN Eval(a[p], mdl) ELSE Eval(b[p], mdl)

\* a merge of two tuples that differ in some field in some model
MergeLawWitness ==
  /\ last.op = "ite" /\ last.res.k = "ref"
  /\ heap[last.self].kind = "tuple"
  /\ LET a == LeafTerms(heap, Ref(last.self))
         b == LeafTerms(heap, Ref(last.other))
     IN \E p \in 1..Len(a) :
          \E mdl \in ModelsOver(SymsOf(a[p]) \cup SymsOf(b[p])) :
            Eval(a[p], mdl) # Eval(b[p], mdl)

\* C3: materialization idempotence.  The first projection of, or assignment
\* from, a free Tuple term gives it one child per field; a populated Tuple
\* term keeps its children in every later step (projection, equality, merge,
\* assignment, update, ...), and projecting it again allocates nothing and
\* returns the child it already holds.
MaterializeOnce ==
  [][ /\ \A id \in 1..Len(heap) :
           (heap[id].kind = "tuple" /\ Len(heap[id].elements) # 0)
             => heap'[id].elements = heap[id].elements
      /\ (last'.op = "project" /\ heap[last'.self].kind = "tuple"
          /\ last'.idx < FieldCount(last'.self)) =>
           /\ Len(heap'[last'.self].elements) = FieldCount(last'.self)
           /\ \A j \in 1..FieldCount(last'.self) :
                heap'[last'.self].elements[j] # Null
           /\ last'.res = heap'[last'.self].elements[last'.idx + 1]
           /\ Len(heap[last'.self].elements) # 0 =>
                (heap' = heap /\ syms' = syms /\ ctr' = ctr)
      /\ (last'.op = "assign" /\ heap[last'.self].kind = "tuple") =>
           Len(heap'[last'.other].elements) = FieldCount(last'.other)
    ]_vars

\* a symbol's tuple is projected a second time
MaterializeOnceWitness ==
  /\ last.op = "project" /\ ~last.was_free /\ last.res.k # "none"
  /\ heap[last.self].kind = "tuple"
  /\ heap[last.self].name = <<"x", ".">>

\* C4: every Tuple and TupleArray term's child list is empty or holds one
\* non-null child per field.
NoPartialChildren ==
  \A id \in 1..Len(heap) :
    Len(heap[id].elements) = 0 \/ Materialized(id)

\* C5: projecting a Tuple or TupleArray term with an index at or above its
\* field count ends in the fault state and returns no child.
ProjectOutOfBoundsFatal ==
  (last.op = "project" /\ last.idx >= FieldCount(last.self)) =>
    (fault /\ last.res = NoResult)

ProjectOutOfBoundsWitness ==
  /\ last.op = "project" /\ last.idx >= FieldCount(last.self)
  /\ heap[last.self].kind = "tuple" /\ fault

\* C6 as stated: the term tuple_create(L) builds is materialized with one
\* child per field, and decoding it returns an aggregate equal to L, for
\* every structured literal L.
TupleCreateRoundTripAll ==
  last.op = "tuple_create" =>
    /\ last.res.k = "ref" /\ Materialized(last.res.id)
    /\ \A mdl \in SolvedModels(last.res.id) :
         tuple_get_rec(heap, last.res.id, mdl) = last.expr

\* C6 amended: as above for a literal that is not of the canonical pointer
\* record type; a literal of that type decodes to the pointer value built
\* from its two fields.
TupleCreateRoundTrip ==
  last.op = "tuple_create" =>
    /\ last.res.k = "ref" /\ Materialized(last.res.id)
    /\ \A mdl \in SolvedModels(last.res.id) :
         tuple_get_rec(heap, last.res.id, mdl) =
           IF last.expr.type = pointer_struct
           THEN pointer_expr(last.expr.ops[1].v, last.expr.ops[2].v)
           ELSE last.expr

\* a literal with a nested structured field has been created
TupleCreateRoundTripWitness ==
  /\ last.op = "tuple_create" /\ last.res.k = "ref"
  /\ last.expr.type = TypeDef.N
  /\ heap[last.res.id].elements[1].k = "ref"

\* the aggregate the union law expects: the initializer in the members of
\* its type, "no value" elsewhere
UnionExpected(unidef) ==
  LET def == get_type_def(unidef.type)
  IN StructE(unidef.type,
             [j \in 1..Len(def.members) |->
                IF def.members[j] = unidef.ops[1].type
                THEN unidef.ops[1] ELSE NilE])

\* C7: union law.  Decoding the term union_create returns yields the
\* initializer's value for the initialized member and "no value" for every
\* other member (7 for x and "no value" for y in {x: 8-bit, y: boolean},
\* x = 7).
UnionLaw ==
  last.op = "union_create" =>
    /\ ~fault /\ last.res.k = "ref"
    /\ \A mdl \in SolvedModels(last.res.id) :
         tuple_get_rec(heap, last.res.id, mdl) = UnionExpected(last.expr)

\* C8: the Tuple union_create returns has one non-null child per member, and
\* the members of the initializer's type are constrained to the initializer.
\* (The children are read after materializing the returned term.)
UnionCreateShape ==
  last.op = "union_create" =>
    /\ ~fault /\ last.res.k = "ref"
    /\ LET m == make_free(Machine("crash"), last.res.id)
           els == m.heap[last.res.id].elements
           def == get_type_def(last.expr.type)
           init == last.expr.ops[1]
       IN /\ Len(els) = Len(def.members)
          /\ \A j \in 1..Len(els) :
               /\ els[j] # Null
               /\ (def.members[j] = init.type /\ init.e \in {"int", "bool"}) =>
                    /\ IsPlain(els[j])
                    /\ \A mdl \in {md \in ModelsOver(
                                              RelatedSyms(SymsOf(els[j].t))) :
                                     Satisfies(md)} :
                         Eval(els[j].t, mdl) = Eval(convert_ast(m, init).ast.t, mdl)

\* C9: the null-pointer symbol converts to the one null sentinel and
\* "INVALID" to the invalid sentinel; the sentinels never change; the null
\* sentinel is the (0, 0) pointer record and decodes to the null pointer.
PointerRoundTrip ==
  /\ heap[1] = PostInit[1] /\ heap[2] = PostInit[2]
  /\ (last.op = "mk_tuple_symbol" /\ last.name \in {<<"0">>, <<"NULL">>}) =>
       /\ last.res = null_ptr_ast
       /\ heap[last.res.id].sort = pointer_struct
       /\ LeafTerms(heap, last.res) =
            <<ConstTerm(0, BvSort(PtrWidth)), ConstTerm(0, BvSort(PtrWidth))>>
       /\ \A mdl \in SolvedModels(last.res.id) :
            tuple_get_rec(heap, last.res.id, mdl) = SymE(TypeDef.ptr, <<"NULL">>)
  /\ (last.op = "mk_tuple_symbol" /\ last.name = <<"INVALID">>) =>
       last.res = invalid_ptr_ast

\* the null symbol is converted after other terms have been built
PointerRoundTripWitness ==
  /\ last.op = "mk_tuple_symbol" /\ last.name = <<"NULL">>
  /\ last.res = null_ptr_ast /\ Len(heap) > 2

\* C10: for a finite constant size, every element select(result, k) of the
\* TupleArray built by tuple_array_create equals, field by field and in every
\* model, the repeated initializer or the k-th listed element.
ArrayCreateLaw ==
  (last.op = "tuple_array_create" /\ last.expr.type.size = "const") =>
    /\ ~fault /\ last.res.k = "ref"
    /\ \A k \in 0..(ArrLen - 1) :
         LET sel == array_select(Machine("crash"), last.res.id, IndexTerm(k))
             got == LeafTerms(sel.m.heap, sel.ast)
             arg == IF last.expr.e = "array_of" THEN last.args[1]
                    ELSE last.args[k + 1]
             want == LeafTerms(heap, arg)
         IN /\ Len(got) = FieldCount(last.res.id) /\ Len(want) = Len(got)
            /\ \A f \in 1..Len(got) :
                 \A mdl \in ModelsOver(SymsOf(got[f]) \cup SymsOf(want[f])) :
                   Eval(got[f], mdl) = Eval(want[f], mdl)

\* an array has been built from one repeated initializer
ArrayCreateLawWitness ==
  /\ last.op = "tuple_array_create" /\ last.expr.e = "array_of"
  /\ last.expr.type = TypeDef.AS /\ last.res.k = "ref"
  /\ Materialized(last.res.id)

\* the tags mk_fresh_name is called with
FreshTags ==
  {"tuple_create::", "union_create::", "union_create_elem", "tuple_fresh::",
   "tuple_ite::", "tuple_array_ite::", "tuple_update::",
   "tuple_array_update::", "tuple_array_select::", "tuple_array_create::",
   "tuple_array_of::"}

\* obj carries the name an operation minted for its result: tag, counter
\* and, for all but union_create_elem, the trailing "." (followed by "[]"
\* on the symbols tuple_array_of converts)
OperationResult(obj) ==
  /\ obj.name[1] \in FreshTags
  /\ \/ Len(obj.name) = 2
     \/ Len(obj.name) = 3 /\ obj.name[3] = "."
     \/ Len(obj.name) = 4 /\ obj.name[3] = "." /\ obj.name[4] = "[]"

\* C11: name uniqueness.  The fresh-name counter never decreases; the name
\* of every operation-result term comes from a counter value consumed in
\* the step that builds it, combined with the operation's tag; no term that
\* an earlier operation produced carries that name, and two terms built in
\* the same step share it only when they are the working term and the
\* returned term of one union_create, or the symbols one tuple_array_of
\* converts for its fields.
NameUniqueness ==
  [][ /\ ctr' >= ctr
      /\ \A i \in 1..Len(heap) : heap'[i].name = heap[i].name
      /\ \A j \in (Len(heap) + 1)..Len(heap') :
           OperationResult(heap'[j]) =>
             /\ \E n \in ctr..(ctr' - 1) : heap'[j].name[2] = ToString(n)
             /\ \A i \in 1..Len(heap') :
                  (i # j /\ heap'[i].name = heap'[j].name) =>
                    /\ i > Len(heap)
                    /\ heap'[j].name[1] \in {"union_create::",
                                              "tuple_array_of::"}
    ]_vars

\* the result of a merge or an update stands next to the result of an
\* earlier operation
NameUniquenessWitness ==
  /\ last.op \in {"ite", "update"} /\ last.res.k = "ref"
  /\ OperationResult(heap[last.res.id])
  /\ \E i \in 3..(last.res.id - 1) : OperationResult(heap[i])

\* C12: a populated Tuple term is never changed by a later step (project,
\* equality, merge, update, select, assign, union_create, ...); update and
\* merge return a term that did not exist before the step, and update leaves
\* the children of the term it is applied to and of its value argument as
\* they were.
PopulatedFrame ==
  [][ /\ \A id \in 1..Len(heap) :
           (heap[id].kind = "tuple" /\ Len(heap[id].elements) # 0)
             => heap'[id] = heap[id]
      /\ (last'.op \in {"update", "ite"} /\ last'.res.k = "ref")
           => last'.res.id > Len(heap)
      /\ last'.op = "update" =>
           /\ heap'[last'.self].elements = heap[last'.self].elements
           /\ last'.value.k = "ref" =>
                heap'[last'.value.id].elements = heap[last'.value.id].elements
    ]_vars

\* a populated term is updated and the result holds other children
PopulatedFrameWitness ==
  /\ last.op = "update" /\ last.res.k = "ref"
  /\ Len(heap[last.self].elements) # 0
  /\ heap[last.res.id].elements # heap[last.self].elements

\* C13: a TupleArray term is filled by assign at most once.  An assign to a
\* term whose free flag is set succeeds, gives it the source's per-field
\* arrays and clears the flag; an assign to a term whose flag is cleared ends
\* in the fault state and leaves its children as they were; a cleared flag
\* is never set again.
ArrayAssignOnce ==
  [][ /\ \A id \in 1..Len(heap) :
           (heap[id].kind = "array" /\ ~heap[id].is_still_free)
             => ~heap'[id].is_still_free
      /\ (last'.op = "assign" /\ heap[last'.self].kind = "array") =>
           IF heap[last'.self].is_still_free
           THEN /\ ~fault'
                /\ heap'[last'.self].elements = heap[last'.other].elements
                /\ ~heap'[last'.self].is_still_free
           ELSE /\ fault'
                /\ heap'[last'.self].elements = heap[last'.self].elements
    ]_vars

\* a TupleArray term that was filled from another one is assigned again
ArrayAssignOnceWitness ==
  /\ last.op = "assign" /\ heap[last.self].kind = "array"
  /\ fault /\ ~heap[last.self].is_still_free
  /\ heap[last.self].elements # <<>>

\* C14: reading back a Tuple term that was never materialized returns an
\* aggregate of the term's type with one "no value" placeholder per field,
\* whatever the backend's model is, and changes no term, symbol or counter:
\* the term is still free afterwards.
FreeDecode ==
  [][ last'.op = "tuple_get" =>
        /\ heap' = heap /\ syms' = syms /\ ctr' = ctr /\ asserted' = asserted
        /\ Len(heap[last'.self].elements) = 0 =>
             /\ last'.value.e = "struct"
             /\ last'.value.type = heap[last'.self].sort
             /\ Len(last'.value.ops) = FieldCount(last'.self)
             /\ \A j \in 1..Len(last'.value.ops) : last'.value.ops[j] = NilE
             /\ \A mdl \in SolvedModels(last'.self) :
                  tuple_get_rec(heap, last'.self, mdl) = last'.value
    ]_vars

\* a free record term with several fields was read back
FreeDecodeWitness ==
  /\ last.op = "tuple_get"
  /\ Len(heap[last.self].elements) = 0
  /\ Len(last.value.ops) >= 2

\* a term of pointer type or of the canonical pointer record type
IsPointerTerm(id) ==
  heap[id].kind = "tuple"
  /\ (is_pointer_type(heap[id].sort) \/ heap[id].sort = pointer_struct)

\* C15 as stated: reading back a term of pointer type or of the canonical
\* pointer record type, materialized or not, returns a pointer value and
\* never a generic record.
PointerDecodeAll ==
  (last.op = "tuple_get" /\ IsPointerTerm(last.self)) =>
    last.value.e # "struct"

\* C15 amended: reading back a materialized term of pointer type or of the
\* canonical pointer record type returns the pointer value built from the
\* values of its two children (object, offset), never a generic record; a
\* term that was never materialized reads back as the record of placeholders.
PointerDecode ==
  (last.op = "tuple_get" /\ IsPointerTerm(last.self)) =>
    IF Len(heap[last.self].elements) = 0
    THEN last.value = StructE(heap[last.self].sort, <<NilE, NilE>>)
    ELSE /\ last.value.e # "struct"
         /\ IsPlain(heap[last.self].elements[1])
         /\ IsPlain(heap[last.self].elements[2])
         /\ \E mdl \in SolvedModels(last.self) :
              last.value = pointer_expr(Eval(heap[last.self].elements[1].t, mdl),
                                        Eval(heap[last.self].elements[2].t, mdl))

\* a materialized pointer term other than the sentinels read back as a
\* pointer to an object
PointerDecodeWitness ==
  /\ last.op = "tuple_get" /\ IsPointerTerm(last.self)
  /\ last.self > 2
  /\ Len(heap[last.self].elements) # 0
  /\ last.value.e = "pointer"

\* C16: invalid pairs of term variant and operation are fatal.  select on a
\* Tuple term and project on a Plain term end in the fault state and return
\* no term; so do update and select on a Plain term whose sort is not an
\* array.
InvalidPairsFatal ==
  /\ (last.op = "select" /\ heap[last.self].kind = "tuple") =>
       (fault /\ last.res = NoResult)
  /\ last.op = "plain_project" => (fault /\ last.res = NoResult)
  /\ (last.op \in {"plain_update", "plain_select"}
      /\ last.term.t.sort.id # "array") =>
       (fault /\ last.res = NoResult)

\* update was applied to a bit-vector term
InvalidPairsFatalWitness ==
  /\ last.op = "plain_update" /\ last.term.t.sort.id = "bv"
  /\ fault

\* C17 as stated: a Tuple term created from a source symbol, and a Tuple term
\* returned by a merge or an update, starts with an empty child list.
LazyStartAll ==
  (last.op \in {"mk_tuple_symbol", "ite", "update"}
   /\ last.res.k = "ref" /\ last.res.id > 2
   /\ heap[last.res.id].kind = "tuple") =>
    Len(heap[last.res.id].elements) = 0

\* C17 amended: a Tuple term created from a source symbol starts free; a
\* Tuple term returned by a merge, or by an update within the field count, is
\* populated when it is returned, one child per field; and a free term is
\* given its children, exactly one per field, only by a step that projects,
\* assigns, compares or merges Tuple terms or stores one into a TupleArray.
LazyStart ==
  [][ /\ (last'.op = "mk_tuple_symbol" /\ last'.res.id > Len(heap)) =>
           heap'[last'.res.id].elements = <<>>
      /\ (last'.op \in {"ite", "update"} /\ last'.res.k = "ref"
          /\ heap'[last'.res.id].kind = "tuple"
          /\ (last'.op = "update" =>
                last'.idx < Len(get_type_def(heap[last'.self].sort).members)))
           => /\ Len(heap'[last'.res.id].elements)
                   = Len(get_type_def(heap'[last'.res.id].sort).members)
              /\ \A j \in 1..Len(heap'[last'.res.id].elements) :
                   heap'[last'.res.id].elements[j] # Null
      /\ \A id \in 1..Len(heap) :
           (heap[id].kind = "tuple" /\ heap[id].elements = <<>>
            /\ heap'[id].elements # <<>>) =>
             /\ Len(heap'[id].elements)
                  = Len(get_type_def(heap[id].sort).members)
             /\ last'.op \in {"project", "assign", "eq", "ite", "array_update"}
    ]_vars

\* two terms created from symbols were merged and the result holds one
\* child per field
LazyStartWitness ==
  /\ last.op = "ite" /\ last.res.k = "ref"
  /\ heap[last.res.id].kind = "tuple"
  /\ Len(heap[last.res.id].elements) >= 2
  /\ last.self > 2 /\ last.other > 2

\* the equality term expected for two child slots: one equality per Plain
\* pair, one conjunction per structured pair, in field order
RECURSIVE EqShape(_, _, _)
RECURSIVE EqShapeSeq(_, _, _, _)
EqShapeSeq(h, xs, ys, i) ==
  IF i > Len(xs) THEN <<>>
  ELSE <<EqShape(h, xs[i], ys[i])>> \o EqShapeSeq(h, xs, ys, i + 1)
EqShape(h, x, y) ==
  IF x.k = "plain" THEN EqTerm(x.t, y.t)
  ELSE AndTerm(EqShapeSeq(h, h[x.id].elements, h[y.id].elements, 1))

\* C18: tuple equality.  After eq(t1, t2) both terms are materialized, the
\* result is the conjunction of exactly one equality per field in descriptor
\* field order (a nested conjunction for a structured field), and it is true
\* in a model exactly when every pair of corresponding leaves is equal; the
\* same holds for two TupleArrays over their per-field arrays.
TupleEquality ==
  (last.op = "eq" /\ last.res.k = "plain") =>
    LET a == LeafTerms(heap, Ref(last.self))
        b == LeafTerms(heap, Ref(last.other))
    IN /\ Materialized(last.self) /\ Materialized(last.other)
       /\ last.res.t.op = "and"
       /\ Len(last.res.t.args) = FieldCount(last.self)
       /\ last.res.t = EqShape(heap, Ref(last.self), Ref(last.other))
       /\ Len(a) = Len(b) /\ Len(a) > 0
       /\ \A mdl \in ModelsOver(SymsOf(last.res.t)) :
            (Eval(last.res.t, mdl) = 1)
              <=> \A p \in 1..Len(a) : Eval(a[p], mdl) = Eval(b[p], mdl)

\* two distinct Tuple terms were compared, and the equality is false in some
\* model and true in another
TupleEqualityWitness ==
  /\ last.op = "eq" /\ last.res.k = "plain"
  /\ heap[last.self].kind = "tuple" /\ last.self # last.other
  /\ \E mdl \in ModelsOver(SymsOf(last.res.t)) : Eval(last.res.t, mdl) = 0
  /\ \E mdl \in ModelsOver(SymsOf(last.res.t)) : Eval(last.res.t, mdl) = 1

\* the Plain children of the Tuple term select(id, k) builds on machine m
SelectedLeaves(m, id, k) ==
  LET read(r) == LeafTerms(r.m.heap, r.ast)
  IN read(array_select(m, id, IndexTerm(k)))

\* terms xs and ys have the same value, pair by pair, in every model
SameInEveryModel(xs, ys) ==
  /\ Len(xs) = Len(ys)
  /\ \A p \in 1..Len(xs) :
       \A mdl \in ModelsOver(SymsOf(xs[p]) \cup SymsOf(ys[p])) :
         Eval(xs[p], mdl) = Eval(ys[p], mdl)

\* C19: TupleArray select/update law.  update(a, v, idx) returns a new
\* TupleArray whose field array i is child i of a stored at idx with
\* project(v, i), and leaves a's children as they were; select(a, idx)
\* returns a new, fully populated Tuple term whose child i is child i of a
\* selected at idx and which is not a child of a; and in every model
\* select(update(a, v, idx), idx) equals v field by field while
\* select(update(a, v, idx), k) equals select(a, k) for every k # idx.
ArraySelectUpdateLaw ==
  [][ /\ (last'.op = "array_update" /\ last'.res.k = "ref") =>
           LET a == last'.self
               r == last'.res.id
               v == last'.value.id
               n == Len(get_type_def(heap[a].sort.subtype).members)
           IN /\ r > Len(heap) /\ heap'[r].kind = "array"
              /\ heap'[a].elements = heap[a].elements
              /\ Len(heap'[r].elements) = n
              /\ \A i \in 1..n :
                   heap'[r].elements[i]
                     = Plain(StoreTerm(heap[a].elements[i].t,
                                       IndexTerm(last'.idx),
                                       heap'[v].elements[i].t))
              /\ \A k \in IndexDomain :
                   SameInEveryModel(
                     SelectedLeaves(Machine("crash")', r, k),
                     IF k = last'.idx THEN LeafTerms(heap', last'.value)
                     ELSE SelectedLeaves(Machine("crash")', a, k))
      /\ (last'.op = "select" /\ last'.res.k = "ref") =>
           LET a == last'.self
               r == last'.res.id
               n == Len(get_type_def(heap[a].sort.subtype).members)
           IN /\ r > Len(heap) /\ heap'[r].kind = "tuple"
              /\ heap'[a].elements = heap[a].elements
              /\ Len(heap'[r].elements) = n
              /\ \A i \in 1..n :
                   /\ heap'[r].elements[i]
                        = Plain(SelectTerm(heap[a].elements[i].t,
                                           IndexTerm(last'.idx),
                                           convert_sort(
                                             get_type_def(heap[a].sort.subtype)
                                               .members[i])))
                   /\ heap'[a].elements[i] # Ref(r)
    ]_vars

\* a TupleArray was updated at an index with a Tuple value whose fields can
\* differ from those stored before
ArraySelectUpdateLawWitness ==
  /\ last.op = "array_update" /\ last.res.k = "ref"
  /\ heap[last.res.id].kind = "array"
  /\ Len(heap[last.res.id].elements) >= 2
  /\ ~SameInEveryModel(SelectedLeaves(Machine("crash"), last.self, last.idx),
                       LeafTerms(heap, last.value))

\* C20: updating a Tuple term with a field index at or above its field count
\* ends in the fatal fault state and returns no term.
UpdateOutOfBoundsFatal ==
  (last.op = "update" /\ last.idx >= FieldCount(last.self)) =>
    fault /\ last.res = NoResult

\* the indexes of the stores applied to term t, innermost first
RECURSIVE StoreIndexes(_)
StoreIndexes(t) ==
  IF t.op = "store" THEN Append(StoreIndexes(t.a), t.i) ELSE <<>>

\* the terms a step allocated under the fresh-name tag
AllocatedWithTag(h, h2, tag) ==
  {id \in (Len(h) + 1)..Len(h2) : h2[id].name[1] = tag}

\* C21: tuple_array_create size handling.  For an infinite-sized array type
\* the step returns a new TupleArray whose field arrays carry no store, and
\* emits no assertion; for a finite array whose size is not a constant
\* integer it ends in the fatal fault state without a result; otherwise it
\* applies exactly one update per index 0..size-1, in increasing order.
ArrayCreateSizes ==
  [][ last'.op = "tuple_array_create" =>
        LET size == last'.expr.type.size
            updates == AllocatedWithTag(heap, heap', "tuple_array_update::")
        IN /\ size = "infinite" =>
                /\ ~fault' /\ last'.res.k = "ref"
                /\ last'.res.id > Len(heap)
                /\ heap'[last'.res.id].kind = "array"
                /\ heap'[last'.res.id].name[1] = "tuple_array_create::"
                /\ \A i \in 1..Len(heap'[last'.res.id].elements) :
                     heap'[last'.res.id].elements[i].t.op = "sym"
                /\ updates = {}
                /\ asserted' = asserted
           /\ size = "nonconst" => fault' /\ last'.res = NoResult
           /\ size = "const" =>
                /\ ~fault' /\ last'.res.k = "ref"
                /\ Cardinality(updates) = ArrLen
                /\ last'.res.id \in updates
                /\ Len(heap'[last'.res.id].elements) > 0
                /\ \A i \in 1..Len(heap'[last'.res.id].elements) :
                     StoreIndexes(heap'[last'.res.id].elements[i].t)
                       = [k \in 1..ArrLen |-> IndexTerm(k - 1)]
    ]_vars

\* an infinite-sized array of a two-field record has been created
ArrayCreateSizesWitness ==
  /\ last.op = "tuple_array_create" /\ last.expr.type.size = "infinite"
  /\ last.res.k = "ref" /\ heap[last.res.id].kind = "array"
  /\ Len(heap[last.res.id].elements) >= 2

\* the terms that are children of term id
ChildIds(h, id) ==
  {h[id].elements[j].id :
     j \in {k \in 1..Len(h[id].elements) : h[id].elements[k].k = "ref"}}

\* the terms reachable from the terms of S through child links
RECURSIVE ReachableFrom(_, _)
ReachableFrom(h, S) ==
  LET grow(T) == IF T = S THEN S ELSE ReachableFrom(h, T)
  IN grow(S \cup UNION {ChildIds(h, i) : i \in S})

\* C22: the term graph is acyclic in every reachable state: no Tuple or
\* TupleArray term is reachable from itself through child links.
Acyclic ==
  \A id \in 1..Len(heap) : id \notin ReachableFrom(heap, ChildIds(heap, id))

\* after an assignment two distinct terms share a structured child
AcyclicWitness ==
  /\ last.op = "assign" /\ ~fault
  /\ last.self # last.other
  /\ ChildIds(heap, last.self) \cap ChildIds(heap, last.other) # {}

\* the index values of the stores applied to term t
StoredAt(t) ==
  LET idx == StoreIndexes(t) IN {idx[j].v : j \in 1..Len(idx)}

\* the equalities tuple_array_of asserted for the result term id: their left
\* side is a per-field array minted under the result's fresh name
ArrayOfConstraints(id) ==
  {e \in asserted : /\ e.op = "eq" /\ e.a.op = "sym"
                    /\ e.a.sort.id = "array"
                    /\ e.a.name[1] = "tuple_array_of::"
                    /\ e.a.name[2] = heap[id].name[2]}

\* C23: repeated-initializer arrays have the same element count whatever the
\* element type.  For the domain width w convert_array_of_prep computes, a
\* scalar element is stored at the 2^w indexes 0..2^w-1, and for a
\* structured or pointer element each per-field array is constrained at the
\* same 2^w indexes, the constrained arrays being the children of the
\* TupleArray term returned.
ArrayOfSameCount ==
  (last.op = "array_of" /\ ~fault) =>
    LET w == array_domain_width(last.expr.len)
    IN /\ last.res.k = "plain" =>
            StoredAt(last.res.t) = 0..(Pow2(w) - 1)
       /\ last.res.k = "ref" =>
            LET cons == ArrayOfConstraints(last.res.id)
            IN /\ Cardinality(cons) = FieldCount(last.res.id)
               /\ \A e \in cons : StoredAt(e.b) = 0..(Pow2(w) - 1)
               /\ {Plain(e.a) : e \in cons}
                    = {heap[last.res.id].elements[i] :
                         i \in 1..Len(heap[last.res.id].elements)}
====
